---- MODULE Spec2Model ----
(***************************************************************************)
(* Model of the IMFPY simulation core: ParticleEnsemble / SimulationConfig *)
(* validation (simulation/config.py), the RK4 backends                     *)
(* (simulation/backends/*.py), the Fortran module loader                   *)
(* (fortran/build.py) and BackendRegistry / SimulationRunner               *)
(* (simulation/runner.py).                                                 *)
(*                                                                         *)
(* Real numbers are fixed-point integers in units of 1/SCALE; a product or *)
(* quotient is rounded to the nearest unit, as a float operation rounds to *)
(* the nearest representable value.                                        *)
(***************************************************************************)
EXTENDS Integers, Sequences, FiniteSets, TLC

---------------------------------------------------------------------------
(* Bounds of the model.                                                    *)

\* fixed-point resolution: the real number x is the integer x * SCALE
SCALE == 100
\* largest num_steps a configuration is offered
MaxSteps == 3
\* largest particle count of an offered ensemble
MaxParticles == 2
\* number of SimulationRunner.run calls of a behaviour
MaxRuns == 2
\* number of workers a SimulationWindow starts in a behaviour
MaxWorkers == 3

---------------------------------------------------------------------------
(* Fixed-point arithmetic.                                                 *)

Abs(x) == IF x < 0 THEN -x ELSE x

\* a / b rounded to the nearest integer, halves away from zero
RoundDiv(a, b) ==
    LET q == Abs(a) \div Abs(b)
        rem == Abs(a) % Abs(b)
        n == IF rem >= Abs(b) - rem THEN q + 1 ELSE q
    IN  IF (a < 0) = (b < 0) THEN n ELSE -n

Mul(a, b) == RoundDiv(a * b, SCALE)
Div(a, b) == RoundDiv(a * SCALE, b)

RECURSIVE SqrtIter(_, _, _)
SqrtIter(x, lo, hi) ==
    IF lo >= hi THEN lo
    ELSE CHOOSE r \in {IF mid * mid <= x THEN SqrtIter(x, mid, hi)
                                         ELSE SqrtIter(x, lo, mid - 1) :
                         mid \in {(lo + hi + 1) \div 2}} : TRUE

\* floor of the square root of a natural number
ISqrt(x) == SqrtIter(x, 0, 46340)

---------------------------------------------------------------------------
(* numpy arrays: whether the value is an ndarray at all, its shape, and    *)
(* its elements in row-major order.                                        *)

\* an array holds its elements, computed once, not the expression that
\* produces them
ndarray(x) == CHOOSE y \in {x} : y = x

Arr(shape, data) == [nd |-> TRUE, shape |-> shape, data |-> data]
NotArr(shape, data) == [nd |-> FALSE, shape |-> shape, data |-> data]

\* np.asarray(values, dtype=float) / np.array(list(values), dtype=float)
asarray(v) == [v EXCEPT !.nd = TRUE]

NoError == [type |-> "None", msg |-> "", cause |-> "None"]
Err(type, msg, cause) == [type |-> type, msg |-> msg, cause |-> cause]

---------------------------------------------------------------------------
(* simulation/config.py                                                    *)

\* _to_array: the error raised for a field vector, NoError if it is accepted
to_array_error(values, length) ==
    IF asarray(values).shape # <<length>>
    THEN Err("ValueError", "Expected sequence of length", "None")
    ELSE NoError

to_array(values, length) == asarray(values)

\* the error of the first per-particle vector whose leading dimension
\* differs from n_particles (config.py:44-51), NoError if there is none
RECURSIVE LengthError(_, _)
LengthError(vectors, n_particles) ==
    IF vectors = <<>> THEN NoError
    ELSE LET vector == Head(vectors)
         IN  IF Len(vector.shape) = 0
             THEN Err("IndexError", "tuple index out of range", "None")
             ELSE IF vector.shape[1] # n_particles
             THEN Err("ValueError", "length does not match", "None")
             ELSE LengthError(Tail(vectors), n_particles)

\* the mass check with a strict comparison
AnyMassNegative(masses) == \E k \in 1..Len(masses.data) : masses.data[k] < 0

\* np.any(self.masses <= 0)
AnyMassNonPositive(masses) == \E k \in 1..Len(masses.data) : masses.data[k] <= 0

\* ParticleEnsemble.__post_init__: the error it raises, NoError if it returns
post_init_ensemble(positions, velocities, charges, masses, betas) ==
    IF \E value \in {positions, velocities, charges, masses, betas} : ~value.nd
    THEN Err("TypeError", "must be a numpy.ndarray", "None")
    ELSE IF positions.shape # velocities.shape
    THEN Err("ValueError", "positions and velocities must share the same shape", "None")
    ELSE IF Len(positions.shape) # 2 \/ positions.shape[2] # 3
    THEN Err("ValueError", "positions must be shaped (n_particles, 3)", "None")
    ELSE LET lenErr == LengthError(<<velocities, charges, masses, betas>>,
                                   positions.shape[1])
         IN  IF lenErr # NoError THEN lenErr
             ELSE IF AnyMassNonPositive(masses)
             THEN Err("ValueError", "Mass values must be strictly positive", "None")
             ELSE NoError

ParticleEnsemble(positions, velocities, charges, masses, betas) ==
    [positions |-> positions, velocities |-> velocities, charges |-> charges,
     masses |-> masses, betas |-> betas]

\* ParticleEnsemble.count
count(particles) == particles.positions.shape[1]

\* as_initial_state with the two blocks in the wrong order
as_initial_state_swapped(particles) ==
    ndarray([p \in 1..count(particles) |->
        [c \in 1..6 |-> IF c <= 3 THEN particles.velocities.data[3 * (p - 1) + c]
                                  ELSE particles.positions.data[3 * (p - 1) + c - 3]]])

\* ParticleEnsemble.as_initial_state: np.hstack((positions, velocities)),
\* one row [x, y, z, vx, vy, vz] per particle
as_initial_state(particles) ==
    ndarray([p \in 1..count(particles) |->
        [c \in 1..6 |-> IF c <= 3 THEN particles.positions.data[3 * (p - 1) + c]
                                  ELSE particles.velocities.data[3 * (p - 1) + c - 3]]])

\* SimulationConfig.__post_init__ accepting a single step
post_init_config_one_step(num_steps, time_step, electric_field, magnetic_field, backend) ==
    IF num_steps < 1
    THEN Err("ValueError", "num_steps must be > 1", "None")
    ELSE IF time_step <= 0
    THEN Err("ValueError", "time_step must be positive", "None")
    ELSE IF to_array_error(electric_field, 3) # NoError
    THEN to_array_error(electric_field, 3)
    ELSE IF to_array_error(magnetic_field, 3) # NoError
    THEN to_array_error(magnetic_field, 3)
    ELSE IF backend \notin {"fortran", "python", "gpu"}
    THEN Err("ValueError", "Unsupported backend", "None")
    ELSE NoError

\* SimulationConfig.__post_init__: the error it raises, NoError if it returns
post_init_config(num_steps, time_step, electric_field, magnetic_field, backend) ==
    IF num_steps <= 1
    THEN Err("ValueError", "num_steps must be > 1", "None")
    ELSE IF time_step <= 0
    THEN Err("ValueError", "time_step must be positive", "None")
    ELSE IF to_array_error(electric_field, 3) # NoError
    THEN to_array_error(electric_field, 3)
    ELSE IF to_array_error(magnetic_field, 3) # NoError
    THEN to_array_error(magnetic_field, 3)
    ELSE IF backend \notin {"fortran", "python", "gpu"}
    THEN Err("ValueError", "Unsupported backend", "None")
    ELSE NoError

SimulationConfig(particles, num_steps, time_step, gm_sun, electric_field, magnetic_field, backend) ==
    [particles |-> particles, num_steps |-> num_steps, time_step |-> time_step,
     gm_sun |-> gm_sun,
     electric_field |-> to_array(electric_field, 3),
     magnetic_field |-> to_array(magnetic_field, 3),
     backend |-> backend]

\* SimulationConfig.time_span
time_span(config) == Mul(config.time_step, (config.num_steps - 1) * SCALE)

\* np.linspace with endpoint=False: num samples that stop short of stop
linspace_open(start, stop, num) ==
    LET step == RoundDiv(stop - start, num)
    IN  [k \in 1..num |-> (k - 1) * step + start]

\* np.linspace(start, stop, num): num samples, the last one set to stop
linspace(start, stop, num) ==
    LET step == RoundDiv(stop - start, num - 1)
    IN  [k \in 1..num |-> IF k = num THEN stop ELSE (k - 1) * step + start]

\* SimulationConfig.times
times(config) == linspace(0, time_span(config), config.num_steps)

\* whether charges / masses broadcasts to one value per particle
RankOne(config) ==
    /\ Len(config.particles.charges.shape) = 1
    /\ Len(config.particles.masses.shape) = 1
    /\ Len(config.particles.betas.shape) = 1

\* SimulationConfig.q_over_m
q_over_m(config) ==
    ndarray([p \in 1..count(config.particles) |->
        Div(config.particles.charges.data[p], config.particles.masses.data[p])])

---------------------------------------------------------------------------
(* simulation/backends/python_backend.py                                   *)

\* a matrix is a sequence of rows, one 6-tuple per particle
MAdd(a, b) == ndarray([p \in DOMAIN a |-> [c \in 1..6 |-> a[p][c] + b[p][c]]])
MScale(s, a) == ndarray([p \in DOMAIN a |-> [c \in 1..6 |-> Mul(s, a[p][c])]])

\* np.linalg.norm of a 3-vector
norm(x, y, z) == ISqrt(x * x + y * y + z * z)

\* np.where(r > 1e-12, r**2, np.inf): the square in place of the cube
where_r3_squared(r) == IF r > 0 THEN [inf |-> FALSE, v |-> r * r * SCALE]
                                ELSE [inf |-> TRUE, v |-> 0]

\* np.where(r > 1e-12, r**3, np.inf); 1e-12 is below the fixed-point
\* resolution, so the guard is r > 0.  The cube is kept exact, in units of
\* 1/SCALE^3.
where_r3(r) == IF r > 0 THEN [inf |-> FALSE, v |-> r * r * r]
                        ELSE [inf |-> TRUE, v |-> 0]

\* x / r3 for x in units of 1/SCALE; a finite x over np.inf is 0
div_r3(x, r3) == IF r3.inf THEN 0 ELSE RoundDiv(x * SCALE * SCALE * SCALE, r3.v)

\* np.cross(velocities, magnetic_field), component c
cross(v, b, c) ==
    CASE c = 1 -> Mul(v[2], b[3]) - Mul(v[3], b[2])
      [] c = 2 -> Mul(v[3], b[1]) - Mul(v[1], b[3])
      [] c = 3 -> Mul(v[1], b[2]) - Mul(v[2], b[1])

\* _derivatives_numpy with np.linalg.norm(positions) taken over the whole
\* matrix instead of per row (axis=1)
derivatives_numpy_global_norm(state, gm_sun, qm, beta, electric_field, magnetic_field) ==
    ndarray([p \in DOMAIN state |->
        LET positions == SubSeq(state[p], 1, 3)
            velocities == SubSeq(state[p], 4, 6)
            RECURSIVE SumSq(_)
            SumSq(n) == IF n = 0 THEN 0
                        ELSE SumSq(n - 1) + state[n][1] * state[n][1]
                             + state[n][2] * state[n][2] + state[n][3] * state[n][3]
            r == ISqrt(SumSq(Len(state)))
            r3 == where_r3(r)
            grav_coeff == div_r3(Mul(-gm_sun, SCALE - beta[p]), r3)
            grav == [c \in 1..3 |-> Mul(positions[c], grav_coeff)]
            lorentz == [c \in 1..3 |->
                          Mul(qm[p], electric_field[c]
                                     + cross(velocities, magnetic_field, c))]
            acc == [c \in 1..3 |-> grav[c] + lorentz[c]]
        IN  velocities \o acc])

\* _derivatives_numpy
derivatives_numpy(state, gm_sun, qm, beta, electric_field, magnetic_field) ==
    ndarray([p \in DOMAIN state |->
        LET positions == SubSeq(state[p], 1, 3)
            velocities == SubSeq(state[p], 4, 6)
            r == norm(positions[1], positions[2], positions[3])
            r3 == where_r3(r)
            grav_coeff == div_r3(Mul(-gm_sun, SCALE - beta[p]), r3)
            grav == [c \in 1..3 |-> Mul(positions[c], grav_coeff)]
            lorentz == [c \in 1..3 |->
                          Mul(qm[p], electric_field[c]
                                     + cross(velocities, magnetic_field, c))]
            acc == [c \in 1..3 |-> grav[c] + lorentz[c]]
        IN  velocities \o acc])

\* the body of the lambda deriv that PythonBackend.run builds
python_deriv(config, data) ==
    derivatives_numpy(data, config.gm_sun, q_over_m(config),
                      config.particles.betas.data,
                      config.electric_field.data, config.magnetic_field.data)

\* the closure deriv of GPUBackend.run without the (1 - beta) scaling of
\* gravity
gpu_deriv_no_beta(config, data) ==
    ndarray([p \in DOMAIN data |->
        LET positions == SubSeq(data[p], 1, 3)
            velocities == SubSeq(data[p], 4, 6)
            r == norm(positions[1], positions[2], positions[3])
            r3 == where_r3(r)
            grav_coeff == div_r3(-config.gm_sun, r3)
            grav == [c \in 1..3 |-> Mul(positions[c], grav_coeff)]
            lorentz == [c \in 1..3 |->
                          Mul(q_over_m(config)[p],
                              config.electric_field.data[c]
                              + cross(velocities, config.magnetic_field.data, c))]
            acc == [c \in 1..3 |-> grav[c] + lorentz[c]]
        IN  velocities \o acc])

\* the body of the closure deriv of GPUBackend.run (gpu_backend.py)
gpu_deriv(config, data) ==
    ndarray([p \in DOMAIN data |->
        LET positions == SubSeq(data[p], 1, 3)
            velocities == SubSeq(data[p], 4, 6)
            r == norm(positions[1], positions[2], positions[3])
            r3 == where_r3(r)
            grav_coeff == div_r3(Mul(-config.gm_sun,
                                     SCALE - config.particles.betas.data[p]), r3)
            grav == [c \in 1..3 |-> Mul(positions[c], grav_coeff)]
            lorentz == [c \in 1..3 |->
                          Mul(q_over_m(config)[p],
                              config.electric_field.data[c]
                              + cross(velocities, config.magnetic_field.data, c))]
            acc == [c \in 1..3 |-> grav[c] + lorentz[c]]
        IN  velocities \o acc])

\* a derivative callable: the function it runs and the configuration it
\* captured
python_closure(config) == [fn |-> "numpy", config |-> config]
gpu_closure(config) == [fn |-> "cupy", config |-> config]

\* deriv(data)
call(deriv, data) ==
    IF deriv.fn = "cupy" THEN gpu_deriv(deriv.config, data)
                         ELSE python_deriv(deriv.config, data)

\* the stages k1, k2, k3, k4 of _rk4_step: each is the derivative at the
\* state advanced along the stage before it, by dt/2 for k2 and k3 and by
\* dt for k4
RECURSIVE rk4_stages(_, _, _, _)
rk4_stages(k, state, dt, deriv) ==
    IF Len(k) = 4 THEN k
    ELSE LET at == CASE Len(k) = 0 -> state
                     [] Len(k) \in {1, 2} ->
                            MAdd(state, MScale(Mul(SCALE \div 2, dt), k[Len(k)]))
                     [] Len(k) = 3 -> MAdd(state, MScale(dt, k[3]))
         IN  CHOOSE all \in {rk4_stages(next, state, dt, deriv) :
                                next \in {Append(k, call(deriv, at))}} : TRUE

\* _rk4_step with the four stages weighted equally
rk4_step_unweighted(state, dt, deriv) ==
    LET k == rk4_stages(<<>>, state, dt, deriv)
    IN  MAdd(state,
             MScale(Div(dt, 6 * SCALE),
                    MAdd(MAdd(k[1], k[2]), MAdd(k[3], k[4]))))

\* _rk4_step
rk4_step(state, dt, deriv) ==
    LET k == rk4_stages(<<>>, state, dt, deriv)
    IN  MAdd(state,
             MScale(Div(dt, 6 * SCALE),
                    MAdd(MAdd(k[1], MScale(2 * SCALE, k[2])),
                         MAdd(MScale(2 * SCALE, k[3]), k[4]))))

\* a state tensor allocated one row short
zeros_short(num_steps, n) ==
    [i \in 1..(num_steps - 1) |-> [p \in 1..n |-> [c \in 1..6 |-> 0]]]

\* np.zeros((num_steps, count, 6))
zeros(num_steps, n) == [i \in 1..num_steps |-> [p \in 1..n |-> [c \in 1..6 |-> 0]]]

\* SimulationResult(times, state, backend)
SimulationResult(t, state, backend) == [times |-> t, state |-> state, backend |-> backend]

\* SimulationResult.positions: state[:, :, :3]
positions(result) ==
    [k \in DOMAIN result.state |->
        [p \in DOMAIN result.state[k] |-> SubSeq(result.state[k][p], 1, 3)]]

\* state[:, :, 4:], a slice that starts one column late
velocities_late(result) ==
    [k \in DOMAIN result.state |->
        [p \in DOMAIN result.state[k] |->
            SubSeq(result.state[k][p], 5, Len(result.state[k][p]))]]

\* SimulationResult.velocities: state[:, :, 3:]
velocities(result) ==
    [k \in DOMAIN result.state |->
        [p \in DOMAIN result.state[k] |->
            SubSeq(result.state[k][p], 4, Len(result.state[k][p]))]]

\* SimulationResult.num_particles: state.shape[1]
num_particles(result) == Len(result.state[1])

\* SimulationResult.num_steps: state.shape[0]
result_num_steps(result) == Len(result.state)

---------------------------------------------------------------------------
(* simulation/backends/gpu_backend.py                                      *)

\* GPUBackend.__init__ that leaves the check to the first use of cupy
gpu_init_lazy(cupy) == NoError

\* GPUBackend.__init__: the error it raises when cupy failed to import
gpu_init(cupy) ==
    IF ~cupy THEN Err("GPUNotAvailableError", "CuPy is not installed", "None")
    ELSE NoError

---------------------------------------------------------------------------
(* fortran/build.py                                                        *)

\* f2py_main(args) under a toolchain: whether it leaves a compiled module
\* in the build directory, the SystemExit code it ends with, and what it
\* printed.  A "silent" toolchain fails without printing anything; a "noop"
\* one exits with code 0 and leaves no module.
f2py_main(tc) ==
    CASE tc = "ok"      -> [built |-> TRUE,  code |-> 0, stdout |-> "", stderr |-> ""]
      [] tc = "missing" -> [built |-> FALSE, code |-> 1, stdout |-> "",
                            stderr |-> "gfortran: command not found"]
      [] tc = "broken"  -> [built |-> FALSE, code |-> 1,
                            stdout |-> "compiling dust_integrator.f90",
                            stderr |-> "Error: syntax error"]
      [] tc = "silent"  -> [built |-> FALSE, code |-> 1, stdout |-> "", stderr |-> ""]
      [] tc = "noop"    -> [built |-> FALSE, code |-> 0, stdout |-> "", stderr |-> ""]

\* "\n".join(part for part in (output, errors) if part)
join_parts(output, errors) ==
    IF output = "" THEN errors
    ELSE IF errors = "" THEN output
    ELSE output \o "\n" \o errors

\* the message of the FortranBuildError raised for a non-zero exit code,
\* without the captured text
f2py_failed_message_bare(output, errors) ==
    "F2PY failed to compile the Fortran backend"

\* the message of the FortranBuildError raised for a non-zero exit code
f2py_failed_message(output, errors) ==
    LET combined == join_parts(output, errors)
        message == "F2PY failed to compile the Fortran backend"
    IN  IF combined # "" THEN message \o ":\n" \o combined ELSE message

\* _import_module_from_path: a module compiled for another interpreter is
\* found by _existing_module_path but exec_module raises ImportError
import_module_from_path(art) ==
    IF art = "unloadable" THEN Err("ImportError", "cannot import module", "None")
    ELSE NoError

\* the argument list with the backend left to f2py's default
f2py_args_default_backend ==
    <<"-c", "dust_integrator.f90", "-m", "dust_integrator", "--quiet",
      "--opt=-O3", "--opt=-fopenmp", "--f90flags=-fopenmp", "--link-args=-fopenmp">>

\* args, the list handed to f2py_main
f2py_args ==
    <<"-c", "dust_integrator.f90", "-m", "dust_integrator", "--quiet",
      "--backend", "distutils",
      "--opt=-O3", "--opt=-fopenmp", "--f90flags=-fopenmp", "--link-args=-fopenmp">>

\* the directory changes with the way back taken only when f2py_main
\* returns or exits with code 0
chdirs_no_finally(code) ==
    IF code # 0 THEN <<"_BUILD_DIR">> ELSE <<"_BUILD_DIR", "cwd">>

\* the os.chdir calls around f2py_main, in order: into _BUILD_DIR, and in
\* the finally clause back to cwd, the directory saved at entry
chdirs(code) == <<"_BUILD_DIR", "cwd">>

\* build_module that rebuilds only when no module exists, whatever force is
build_module_never_forced(force, art, tc, src) ==
    IF art # "absent"
    THEN [err |-> import_module_from_path(art), artifact |-> art, invoked |-> FALSE, argv |-> <<>>, chdir |-> <<>>]
    ELSE IF ~src
    THEN [err |-> Err("FortranBuildError", "Missing source file", "None"),
          artifact |-> art, invoked |-> FALSE, argv |-> <<>>, chdir |-> <<>>]
    ELSE LET f == f2py_main(tc)
             built == IF f.built THEN "present" ELSE art
         IN  IF f.code # 0
             THEN [err |-> Err("FortranBuildError",
                               f2py_failed_message(f.stdout, f.stderr), "SystemExit"),
                   artifact |-> built, invoked |-> TRUE, argv |-> f2py_args,
                   chdir |-> chdirs(f.code)]
             ELSE IF built = "absent"
             THEN [err |-> Err("FortranBuildError",
                               "Compilation succeeded but module not found.", "None"),
                   artifact |-> built, invoked |-> TRUE, argv |-> f2py_args,
                   chdir |-> chdirs(f.code)]
             ELSE [err |-> import_module_from_path(built), artifact |-> built,
                   invoked |-> TRUE, argv |-> f2py_args,
                   chdir |-> chdirs(f.code)]

\* build_module(force): the error raised (NoError when a module is
\* returned), the build directory afterwards, whether f2py was invoked and
\* with which arguments, and the directories the process changed into;
\* src is whether dust_integrator.f90 exists
build_module(force, art, tc, src) ==
    IF ~force /\ art # "absent"
    THEN [err |-> import_module_from_path(art), artifact |-> art, invoked |-> FALSE, argv |-> <<>>, chdir |-> <<>>]
    ELSE IF ~src
    THEN [err |-> Err("FortranBuildError", "Missing source file", "None"),
          artifact |-> art, invoked |-> FALSE, argv |-> <<>>, chdir |-> <<>>]
    ELSE LET f == f2py_main(tc)
             built == IF f.built THEN "present" ELSE art
         IN  IF f.code # 0
             THEN [err |-> Err("FortranBuildError",
                               f2py_failed_message(f.stdout, f.stderr), "SystemExit"),
                   artifact |-> built, invoked |-> TRUE, argv |-> f2py_args,
                   chdir |-> chdirs(f.code)]
             ELSE IF built = "absent"
             THEN [err |-> Err("FortranBuildError",
                               "Compilation succeeded but module not found.", "None"),
                   artifact |-> built, invoked |-> TRUE, argv |-> f2py_args,
                   chdir |-> chdirs(f.code)]
             ELSE [err |-> import_module_from_path(built), artifact |-> built,
                   invoked |-> TRUE, argv |-> f2py_args,
                   chdir |-> chdirs(f.code)]

\* load_module
load_module(art, tc, src) ==
    LET b == build_module(FALSE, art, tc, src)
    IN  IF b.err.type = "FortranBuildError"
        THEN [b EXCEPT !.err = Err("FortranBuildError",
                                   "Unable to compile the Fortran dust integrator. "
                                   \o "Ensure that gfortran (or another supported "
                                   \o "Fortran compiler) is installed and available "
                                   \o "on PATH.",
                                   "FortranBuildError")]
        ELSE b

---------------------------------------------------------------------------
(* simulation/backends/fortran_backend.py                                  *)

\* FortranBackend.__init__
fortran_init(art, tc, src) == load_module(art, tc, src)

\* np.transpose(state, (2, 1, 0)): (6, n, steps) to (steps, n, 6)
transpose(state, num_steps, n) ==
    [i \in 1..num_steps |-> [p \in 1..n |-> [c \in 1..6 |-> state[c][p][i]]]]

\* the (n, 6) initial state reshaped to (6, n) instead of transposed
initial_state_T_reshaped(particles) ==
    ndarray([c \in 1..6 |->
        [p \in 1..count(particles) |->
            as_initial_state(particles)
                [(((c - 1) * count(particles) + p - 1) \div 6) + 1]
                [(((c - 1) * count(particles) + p - 1) % 6) + 1]]])

\* particles.as_initial_state().T: (n, 6) to (6, n)
initial_state_T(particles) ==
    ndarray([c \in 1..6 |->
        [p \in 1..count(particles) |-> as_initial_state(particles)[p][c]]])

\* the trajectory of the native routine: row 1 is the initial state, each
\* later row one RK4 step of its predecessor
RECURSIVE native_rows(_, _, _)
native_rows(config, rows, k) ==
    IF Len(rows) >= k THEN rows
    ELSE LET row == rk4_step(rows[Len(rows)], config.time_step,
                             python_closure(config))
         IN  CHOOSE all \in {native_rows(config, Append(rows, next), k) :
                                next \in {row}} : TRUE

\* integrate_particles of dust_integrator.f90: fills the (6, n, steps)
\* buffer from the (6, n) initial state
integrate_particles(config, initial_T) ==
    LET n == count(config.particles)
        initial == ndarray([p \in 1..n |-> [c \in 1..6 |-> initial_T[c][p]]])
        rows == native_rows(config, <<initial>>, config.num_steps)
    IN  [c \in 1..6 |-> [p \in 1..n |-> [i \in 1..config.num_steps |-> rows[i][p][c]]]]

---------------------------------------------------------------------------
(* simulation/runner.py                                                    *)

\* DEFAULT_BACKENDS
DEFAULT_BACKENDS ==
    [name \in {"fortran", "python", "gpu"} |->
        CASE name = "fortran" -> "FortranBackend"
          [] name = "python"  -> "PythonBackend"
          [] name = "gpu"     -> "GPUBackend"]

\* a GPU factory that loads the native module before probing cupy
call_factory_gpu_builds(factory, cupy, art, tc, src, outcome) ==
    CASE factory = "PythonBackend" ->
            [err |-> NoError, backend |-> "python", artifact |-> art,
             invoked |-> FALSE, argv |-> <<>>, chdir |-> <<>>]
      [] factory = "GPUBackend" ->
            [err |-> gpu_init(cupy), backend |-> "gpu"] @@ fortran_init(art, tc, src)
      [] factory = "FortranBackend" ->
            [backend |-> "fortran"] @@ fortran_init(art, tc, src)
      [] factory = "Custom" ->
            [err |-> IF outcome = "None" THEN NoError ELSE Err(outcome, "", "None"),
             backend |-> "python", artifact |-> art, invoked |-> FALSE,
             argv |-> <<>>, chdir |-> <<>>]

\* calling a factory: the error it raises (NoError when an instance is
\* returned), the backend it returns, the build directory afterwards and
\* whether f2py was invoked.  A Custom factory is caller-supplied code;
\* outcome is what it raises.
call_factory(factory, cupy, art, tc, src, outcome) ==
    CASE factory = "PythonBackend" ->
            [err |-> NoError, backend |-> "python", artifact |-> art,
             invoked |-> FALSE, argv |-> <<>>, chdir |-> <<>>]
      [] factory = "GPUBackend" ->
            [err |-> gpu_init(cupy), backend |-> "gpu", artifact |-> art,
             invoked |-> FALSE, argv |-> <<>>, chdir |-> <<>>]
      [] factory = "FortranBackend" ->
            [backend |-> "fortran"] @@ fortran_init(art, tc, src)
      [] factory = "Custom" ->
            [err |-> IF outcome = "None" THEN NoError ELSE Err(outcome, "", "None"),
             backend |-> "python", artifact |-> art, invoked |-> FALSE,
             argv |-> <<>>, chdir |-> <<>>]

\* BackendRegistry.get
registry_get(factories, name, cupy, art, tc, src, outcome) ==
    IF name \notin DOMAIN factories
    THEN [err |-> Err("ValueError", "Unknown backend", "KeyError"),
          backend |-> "none", artifact |-> art, invoked |-> FALSE,
          argv |-> <<>>, chdir |-> <<>>]
    ELSE LET made == call_factory(factories[name], cupy, art, tc, src, outcome)
         IN  IF made.err.type = "KeyError"
             THEN [made EXCEPT !.err = Err("ValueError", "Unknown backend", "KeyError")]
             ELSE made

\* the try/except of SimulationRunner.run around registry.get
runner_resolve(factories, name, cupy, art, tc, src, outcome) ==
    LET got == registry_get(factories, name, cupy, art, tc, src, outcome)
    IN  IF got.err.type = "GPUNotAvailableError"
        THEN [got EXCEPT !.err = Err("RuntimeError",
                                     "GPU backend requested but unavailable",
                                     "GPUNotAvailableError")]
        ELSE got

---------------------------------------------------------------------------
(* Inputs offered to the constructors.                                     *)

\* initial position, velocity, charge, mass and beta of particle p; the
\* second particle starts at the origin
PosOf(p) == IF p = 2 THEN <<0, 0, 0>> ELSE <<p * SCALE, 0, 0>>
VelOf(p) == IF p = 2 THEN <<0, 0, 2 * SCALE>> ELSE <<0, SCALE, 0>>
ChargeOf(p) == IF p = 2 THEN -SCALE ELSE SCALE
MassOf(p) == p * SCALE
BetaOf(p) == IF p = 2 THEN SCALE \div 2 ELSE 0

\* the nine columns of a one-row particle table, as the arrays
\* ParticleTableWidget.data returns: filled by populate_circular_orbit, or
\* all "0.0" after clear
TableData(filled) ==
    [positions |-> Arr(<<1, 3>>, IF filled THEN PosOf(1) ELSE <<0, 0, 0>>),
     velocities |-> Arr(<<1, 3>>, IF filled THEN VelOf(1) ELSE <<0, 0, 0>>),
     masses |-> Arr(<<1>>, <<IF filled THEN MassOf(1) ELSE 0>>),
     charges |-> Arr(<<1>>, <<IF filled THEN ChargeOf(1) ELSE 0>>),
     betas |-> Arr(<<1>>, <<IF filled THEN BetaOf(1) ELSE 0>>)]

\* what SimulationRunner().run(config) does in a worker: returns or raises
WorkerOutcomes == {"returned", "raised"}

\* what QFileDialog.getSaveFileName returns: "" when cancelled
PathCands == {"", "trajectory_run.npz"}

\* the (n, 3) positions and velocities in row-major order
RECURSIVE PosData(_)
PosData(n) == IF n = 0 THEN <<>> ELSE PosData(n - 1) \o PosOf(n)
RECURSIVE VelData(_)
VelData(n) == IF n = 0 THEN <<>> ELSE VelData(n - 1) \o VelOf(n)

PosCands ==
    {Arr(<<n, 3>>, PosData(n)) : n \in 0..MaxParticles}
    \cup {Arr(<<1, 2>>, <<SCALE, 0>>), Arr(<<3>>, PosOf(1)),
          NotArr(<<1, 3>>, PosOf(1))}
VelCands ==
    {Arr(<<n, 3>>, VelData(n)) : n \in 0..MaxParticles}
    \cup {Arr(<<1, 2>>, <<0, SCALE>>)}
ChargeCands ==
    {Arr(<<n>>, [p \in 1..n |-> ChargeOf(p)]) : n \in 0..MaxParticles}
    \cup {Arr(<<1, 2>>, <<SCALE, SCALE>>), Arr(<<>>, <<SCALE>>)}
MassCands ==
    {Arr(<<n>>, [p \in 1..n |-> MassOf(p)]) : n \in 0..MaxParticles}
    \cup {Arr(<<1>>, <<0>>), Arr(<<2>>, <<SCALE, -SCALE>>)}
BetaCands ==
    {Arr(<<n>>, [p \in 1..n |-> BetaOf(p)]) : n \in 0..MaxParticles}
    \cup {NotArr(<<1>>, <<0>>)}

StepCands == 1..MaxSteps
TimeStepCands == {0, (3 * SCALE) \div 5}
GmCands == {SCALE}
ECands == {Arr(<<3>>, <<0, 0, 0>>), Arr(<<3>>, <<0, 0, SCALE>>), Arr(<<2>>, <<0, 0>>)}
BCands == {NotArr(<<3>>, <<0, 0, SCALE>>), Arr(<<3, 1>>, <<0, 0, SCALE>>)}
BackendCands == {"fortran", "python", "gpu", "cuda"}

\* registries a SimulationRunner is built with: the default one, one with
\* a caller-supplied factory, and one without the native backend that
\* serves a gpu request with the vectorized backend
Registries ==
    {DEFAULT_BACKENDS,
     [DEFAULT_BACKENDS EXCEPT !["python"] = "Custom"],
     [name \in {"python", "gpu"} |-> "PythonBackend"]}

\* what a caller-supplied factory may do: return, or raise one of these
FactoryOutcomes == {"None", "KeyError", "RuntimeError"}

\* the status the native routine hands back
StatusCands == {0, 1, 2}

\* whether cupy imported, the state of the build directory and of the
\* Fortran toolchain, and whether dust_integrator.f90 is installed, when the
\* package is imported
Environments ==
    {[cupy |-> e[1], artifact |-> e[2], toolchain |-> e[3], source_file |-> e[4],
      cwd |-> e[5]] :
        e \in {<<TRUE, "absent", "ok", TRUE, "/work">>,
               <<FALSE, "absent", "ok", TRUE, "/home">>,
               <<FALSE, "absent", "missing", TRUE, "/work">>,
               <<FALSE, "absent", "broken", TRUE, "/home">>,
               <<TRUE, "absent", "silent", TRUE, "/work">>,
               <<FALSE, "absent", "ok", FALSE, "/work">>,
               <<TRUE, "present", "missing", TRUE, "/home">>,
               <<FALSE, "unloadable", "missing", TRUE, "/work">>,
               <<FALSE, "absent", "noop", TRUE, "/home">>}}

---------------------------------------------------------------------------
(* State.                                                                  *)

VARIABLES
    cupy,        \* gpu_backend.cp is not None
    artifact,    \* the compiled module in _BUILD_DIR: "absent", "present" or
                 \* "unloadable" (present, but its import fails)
    toolchain,   \* "ok", "missing" (no compiler), "broken" (compile error),
                 \* "silent" (fails without output) or "noop" (exits with
                 \* code 0 without output or module)
    source_file, \* _SOURCE_FILE.exists()
    registry,    \* SimulationRunner.registry.factories
    ens,         \* <<>> or <<the ParticleEnsemble constructed>>
    cfg,         \* <<>> or <<the SimulationConfig constructed>>
    args,        \* arguments of the last constructor or build call; the
                 \* status the native routine returned
    pc,          \* "idle", "loop" (in the step loop) or "native" (before the call)
    backend,     \* the backend whose run is in progress
    state,       \* the local state tensor of the run in progress
    i,           \* the loop variable of the run in progress
    ret,         \* what the last operation returned or raised
    calls,       \* number of SimulationRunner.run calls so far
    f2py_ran,    \* whether the last call of build_module ran f2py_main
    f2py_argv,   \* the arguments it ran f2py_main with, <<>> if it did not
    cwd,         \* os.getcwd()
    done,        \* per backend, its completed runs in order: the
                 \* configuration given, the result of backend.run and what
                 \* SimulationRunner.run returned
    window,      \* the SimulationWindow: its page, widgets and _last_result
    thread_pool, \* the workers started and not yet handled, each with the
                 \* signal it emitted
    history      \* the number of workers started, and the results of the
                 \* runs the window saw finish, in order

sim_vars == <<cupy, artifact, toolchain, source_file, registry, ens, cfg, args, pc,
              backend, state, i, ret, calls, f2py_ran, f2py_argv, cwd, done>>

gui_vars == <<window, thread_pool, history>>

vars == <<sim_vars, gui_vars>>

Returned(op, err, result) == [op |-> op, err |-> err, result |-> result]

\* the working directory after the os.chdir calls dirs, "cwd" being the
\* directory at entry
chdir_all(dirs) ==
    IF dirs = <<>> \/ dirs[Len(dirs)] = "cwd" THEN cwd ELSE dirs[Len(dirs)]

Init ==
    /\ \E e \in Environments :
          /\ cupy = e.cupy
          /\ artifact = e.artifact
          /\ toolchain = e.toolchain
          /\ source_file = e.source_file
          /\ cwd = e.cwd
    /\ registry = DEFAULT_BACKENDS
    /\ ens = <<>>
    /\ cfg = <<>>
    /\ args = <<>>
    /\ pc = "idle"
    /\ backend = "none"
    /\ state = <<>>
    /\ i = 0
    /\ ret = Returned("none", NoError, <<>>)
    /\ calls = 0
    /\ f2py_ran = FALSE
    /\ f2py_argv = <<>>
    /\ done = [name \in {"python", "gpu", "fortran"} |-> <<>>]
    /\ window = [page |-> "launch", status_label |-> "Welcome",
                 run_button |-> TRUE, export_action |-> FALSE,
                 last_result |-> <<>>, table |-> TableData(TRUE),
                 backend_combo |-> "fortran", dialog |-> "none"]
    /\ thread_pool = {}
    /\ history = [started |-> 0, finished |-> <<>>]

\* SimulationRunner.__init__
NewRunner(reg) ==
    /\ pc = "idle"
    /\ cfg # <<>>
    /\ calls = 0
    /\ ret.op = "SimulationConfig"
    /\ registry' = reg
    /\ UNCHANGED <<gui_vars, cupy, artifact, toolchain, source_file, ens, cfg, args, pc,
                   backend, state, i, ret, calls, f2py_ran, f2py_argv, cwd,
                   done>>

\* ParticleEnsemble(positions, velocities, charges, masses, betas)
Construct(op, p, v, c, m, b) ==
    /\ LET err == post_init_ensemble(p, v, c, m, b)
       IN  /\ ens' = IF err = NoError THEN <<ParticleEnsemble(p, v, c, m, b)>>
                                      ELSE <<>>
           /\ ret' = Returned(op, err, <<>>)
    /\ args' = <<p, v, c, m, b>>
    /\ UNCHANGED <<gui_vars, cupy, artifact, toolchain, source_file, registry, cfg, pc,
                   backend, state, i, calls, f2py_ran, f2py_argv, cwd,
                   done>>

NewEnsemble ==
    /\ pc = "idle"
    /\ ens = <<>>
    /\ ret.op = "none"
    /\ \E p \in PosCands, v \in VelCands, c \in ChargeCands, m \in MassCands,
       b \in BetaCands :
          Construct("ParticleEnsemble", p, v, c, m, b)

\* ParticleEnsemble.from_sequences
FromSequences ==
    /\ pc = "idle"
    /\ ens = <<>>
    /\ ret.op = "none"
    /\ \E p \in PosCands, v \in VelCands, c \in ChargeCands, m \in MassCands,
          b \in BetaCands :
          /\ ~(p.nd /\ v.nd /\ c.nd /\ m.nd /\ b.nd)
          /\ Construct("from_sequences", asarray(p), asarray(v), asarray(c),
                       asarray(m), asarray(b))

\* SimulationConfig(particles=ens, num_steps=n, ...)
Configure(n, dt, gm, e, b, name) ==
    /\ LET err == post_init_config(n, dt, e, b, name)
       IN  /\ cfg' = IF err = NoError
                     THEN <<SimulationConfig(ens[1], n, dt, gm, e, b, name)>>
                     ELSE <<>>
           /\ ret' = Returned("SimulationConfig", err, <<>>)
    /\ args' = <<n, dt, gm, e, b, name>>
    /\ UNCHANGED <<gui_vars, cupy, artifact, toolchain, source_file, registry, ens, pc,
                   backend, state, i, calls, f2py_ran, f2py_argv, cwd,
                   done>>

\* the configuration of the first run
NewConfig ==
    /\ pc = "idle"
    /\ ens # <<>>
    /\ cfg = <<>>
    /\ ret.op # "SimulationConfig"
    /\ \E n \in StepCands, dt \in TimeStepCands, gm \in GmCands, e \in ECands,
          b \in BCands, name \in BackendCands :
          Configure(n, dt, gm, e, b, name)

\* between two runs: the same configuration for another backend name
Reconfigure ==
    /\ pc = "idle"
    /\ cfg # <<>>
    /\ ret.op = "run"
    /\ calls < MaxRuns
    /\ \E name \in BackendCands :
          Configure(cfg[1].num_steps, cfg[1].time_step, cfg[1].gm_sun,
                    cfg[1].electric_field, cfg[1].magnetic_field, name)

\* a direct call of build_module(force)
BuildModule(force) ==
    /\ pc = "idle"
    /\ cfg # <<>>
    /\ calls = 0
    /\ \E b \in {build_module(force, artifact, toolchain, source_file)} :
           /\ artifact' = b.artifact
           /\ ret' = Returned("build_module", b.err, <<>>)
           /\ f2py_ran' = b.invoked
           /\ f2py_argv' = b.argv
           /\ cwd' = chdir_all(b.chdir)
    /\ args' = <<force>>
    /\ UNCHANGED <<gui_vars, cupy, toolchain, source_file, registry, ens, cfg, pc, backend,
                   state, i, calls, done>>

\* a direct call of load_module()
LoadModule ==
    /\ pc = "idle"
    /\ cfg # <<>>
    /\ calls = 0
    /\ \E b \in {load_module(artifact, toolchain, source_file)} :
           /\ artifact' = b.artifact
           /\ ret' = Returned("load_module", b.err, <<>>)
           /\ f2py_ran' = b.invoked
           /\ f2py_argv' = b.argv
           /\ cwd' = chdir_all(b.chdir)
    /\ args' = <<>>
    /\ UNCHANGED <<gui_vars, cupy, toolchain, source_file, registry, ens, cfg, pc, backend,
                   state, i, calls, done>>

\* SimulationRunner.run up to the step loop of PythonBackend.run or
\* GPUBackend.run, or up to the native call of FortranBackend.run
RunnerRun ==
    /\ pc = "idle"
    /\ cfg # <<>>
    /\ calls < MaxRuns
    /\ \E outcome \in FactoryOutcomes :
        /\ outcome # "None" => /\ cfg[1].backend \in DOMAIN registry
                               /\ registry[cfg[1].backend] = "Custom"
        /\ \E got \in {runner_resolve(registry, cfg[1].backend, cupy, artifact,
                                      toolchain, source_file, outcome)},
              n \in {count(cfg[1].particles)} :
               /\ artifact' = got.artifact
               /\ f2py_ran' = IF got.backend = "fortran" THEN got.invoked ELSE f2py_ran
               /\ f2py_argv' = IF got.backend = "fortran" THEN got.argv ELSE f2py_argv
               /\ cwd' = chdir_all(got.chdir)
               /\ IF got.err # NoError
                  THEN /\ ret' = Returned("run", got.err, <<>>)
                       /\ UNCHANGED <<pc, backend, state, i>>
                  ELSE /\ ret' = Returned("resolve", NoError, <<>>)
                       /\ backend' = got.backend
                       /\ IF got.backend = "fortran"
                          THEN /\ pc' = "native"
                               /\ state' = <<>>
                               /\ i' = 0
                          ELSE /\ pc' = "loop"
                               /\ state' = [zeros(cfg[1].num_steps, n) EXCEPT
                                               ![1] = as_initial_state(cfg[1].particles)]
                               /\ i' = 1
        /\ calls' = calls + 1
        /\ args' = <<>>
        /\ UNCHANGED <<gui_vars, cupy, toolchain, source_file, registry, ens, cfg, done>>

\* SimulationRunner.run catching what backend.run raises and raising a
\* RuntimeError of its own in its place
runner_propagate_wrapped(err) == Err("RuntimeError", "Simulation failed", err.type)

\* an exception of `backend.run(config)` in SimulationRunner.run: no handler
\* encloses the call, so the caller gets the exception as raised
runner_propagate(err) == err

\* one iteration of `for i in range(1, num_steps)`
LoopStep ==
    /\ pc = "loop"
    /\ i < cfg[1].num_steps
    /\ IF RankOne(cfg[1])
       THEN LET deriv == IF backend = "gpu" THEN gpu_closure(cfg[1])
                                            ELSE python_closure(cfg[1])
            IN  /\ state' = [state EXCEPT
                                ![i + 1] = rk4_step(state[i], cfg[1].time_step, deriv)]
                /\ i' = i + 1
                /\ UNCHANGED <<pc, backend, ret>>
       ELSE \* the (n, k) operand does not broadcast against an (n, 3) one
            /\ ret' = Returned("run",
                               runner_propagate(Err("ValueError", "shape mismatch",
                                                    "None")), <<>>)
            /\ pc' = "idle"
            /\ backend' = "none"
            /\ state' = <<>>
            /\ i' = 0
    /\ UNCHANGED <<gui_vars, cupy, artifact, toolchain, source_file, registry, ens, cfg,
                   args, calls, f2py_ran, f2py_argv, cwd,
                   done>>

\* SimulationRunner.run stamping the times with a clock that runs on from
\* one call to the next
runner_return_elapsed(result) ==
    [result EXCEPT !.times = [k \in DOMAIN result.times |-> result.times[k] + calls]]

\* SimulationRunner.run with its result retagged by the runner
runner_return_retagged(result) == [result EXCEPT !.backend = "runner"]

\* `return backend.run(config)` of SimulationRunner.run
runner_return(result) == result

\* the return of the run with the final positions written back into the
\* ensemble's position array
LoopReturn_in_place ==
    /\ pc = "loop"
    /\ i = cfg[1].num_steps
    /\ LET result == SimulationResult(times(cfg[1]), state, backend)
       IN  /\ ret' = Returned("run", NoError, <<runner_return(result)>>)
           /\ done' = [done EXCEPT ![backend] =
                          Append(@, [config |-> cfg[1], result |-> result,
                                     returned |-> runner_return(result)])]
    /\ cfg' = <<[cfg[1] EXCEPT !.particles.positions.data =
                    [k \in DOMAIN @ |->
                        state[i][((k - 1) \div 3) + 1][((k - 1) % 3) + 1]]]>>
    /\ pc' = "idle"
    /\ backend' = "none"
    /\ state' = <<>>
    /\ i' = 0
    /\ UNCHANGED <<gui_vars, cupy, artifact, toolchain, source_file, registry, ens,
                   args, calls, f2py_ran,
                   f2py_argv, cwd>>

\* return SimulationResult(times=config.times, state=..., backend=...)
LoopReturn ==
    /\ pc = "loop"
    /\ i = cfg[1].num_steps
    /\ LET result == SimulationResult(times(cfg[1]), state, backend)
       IN  /\ ret' = Returned("run", NoError, <<runner_return(result)>>)
           /\ done' = [done EXCEPT ![backend] =
                          Append(@, [config |-> cfg[1], result |-> result,
                                     returned |-> runner_return(result)])]
    /\ pc' = "idle"
    /\ backend' = "none"
    /\ state' = <<>>
    /\ i' = 0
    /\ UNCHANGED <<gui_vars, cupy, artifact, toolchain, source_file, registry, ens, cfg,
                   args, calls, f2py_ran,
                   f2py_argv, cwd>>

\* the message of the error raised for a status, without the status
status_message_bare(status) == "Fortran integrator returned non-zero status"

\* f"Fortran integrator returned non-zero status {status}"
status_message(status) ==
    "Fortran integrator returned non-zero status " \o ToString(status)

\* the native call of FortranBackend.run, its status check and its return
NativeCall ==
    /\ pc = "native"
    /\ \E status \in StatusCands :
        IF ~RankOne(cfg[1])
        THEN /\ ret' = Returned("run",
                                runner_propagate(Err("ValueError", "shape mismatch",
                                                     "None")), <<>>)
             /\ UNCHANGED <<args, done>>
        ELSE /\ args' = <<status>>
             /\ IF status # 0
                THEN /\ ret' = Returned("run",
                                        runner_propagate(Err("RuntimeError",
                                                             status_message(status),
                                                             "None")),
                                        <<>>)
                     /\ UNCHANGED done
                ELSE LET native == integrate_particles(cfg[1],
                                       initial_state_T(cfg[1].particles))
                         final_state == transpose(native, cfg[1].num_steps,
                                                  count(cfg[1].particles))
                         result == SimulationResult(times(cfg[1]), final_state,
                                                    "fortran")
                     IN  /\ ret' = Returned("run", NoError, <<runner_return(result)>>)
                         /\ done' = [done EXCEPT !["fortran"] =
                                        Append(@, [config |-> cfg[1],
                                                   result |-> result,
                                                   returned |-> runner_return(result)])]
    /\ pc' = "idle"
    /\ backend' = "none"
    /\ UNCHANGED <<gui_vars, cupy, artifact, toolchain, source_file, registry, ens, cfg,
                   state, i, calls, f2py_ran,
                   f2py_argv, cwd>>

Next ==
    \/ \E reg \in Registries : NewRunner(reg)
    \/ NewEnsemble
    \/ FromSequences
    \/ NewConfig
    \/ Reconfigure
    \/ \E force \in BOOLEAN : BuildModule(force)
    \/ LoadModule
    \/ RunnerRun
    \/ LoopStep
    \/ LoopReturn
    \/ NativeCall

Spec == Init /\ [][Next]_vars

\* the caller writing into the masses array it handed to ParticleEnsemble:
\* the dataclass keeps a reference to that array, not a copy, so
\* `masses[0] = -masses[0]` changes the ensemble and every configuration
\* that holds it, with no validation
SetItem ==
    /\ pc = "idle"
    /\ cfg # <<>>
    /\ ens # <<>>
    /\ count(ens[1]) >= 1
    /\ Len(ens[1].masses.data) >= 1
    /\ ens[1].masses.data[1] > 0
    /\ ens' = <<[ens[1] EXCEPT !.masses.data[1] = -@]>>
    /\ cfg' = <<[cfg[1] EXCEPT !.particles.masses.data[1] = -@]>>
    /\ UNCHANGED <<gui_vars, cupy, artifact, toolchain, source_file, registry, args, pc,
                   backend, state, i, ret, calls, f2py_ran, f2py_argv, cwd, done>>

NextWithWrites ==
    \/ Next
    \/ SetItem

\* the program with a caller that keeps and writes the arrays it passed in
SpecWithWrites == Init /\ [][NextWithWrites]_vars

---------------------------------------------------------------------------
(* gui/main.py: the SimulationWindow, its workers and the signals between  *)
(* them.  Slots run to completion on the GUI thread; a worker runs on a    *)
(* pool thread and its signal is queued to the GUI thread.                 *)

\* SimulationWindow._show_main_view, by the start button of the launch page
ShowMainView ==
    /\ window.page = "launch"
    /\ window' = [window EXCEPT !.page = "main", !.status_label = "Ready"]
    /\ UNCHANGED <<sim_vars, thread_pool, history>>

\* SimulationWindow._reset, by the reset button
Reset ==
    /\ window.page = "main"
    /\ window' = [window EXCEPT !.table = TableData(TRUE),
                                !.status_label = "Defaults restored"]
    /\ UNCHANGED <<sim_vars, thread_pool, history>>

\* ParticleTableWidget.clear, by the clear button of the table
ClearTable ==
    /\ window.page = "main"
    /\ window' = [window EXCEPT !.table = TableData(FALSE)]
    /\ UNCHANGED <<sim_vars, thread_pool, history>>

\* the user picking an entry of backend_combo
SelectBackend(name) ==
    /\ window.page = "main"
    /\ window' = [window EXCEPT !.backend_combo = name]
    /\ UNCHANGED <<sim_vars, thread_pool, history>>

\* SimulationWindow._build_config: the error it raises, and the
\* configuration it returns
build_config(w) ==
    LET err == post_init_ensemble(w.table.positions, w.table.velocities,
                                  w.table.charges, w.table.masses, w.table.betas)
    IN  [err |-> err,
         config |-> [particles |-> w.table, backend |-> w.backend_combo]]

\* _start_simulation that leaves the Run button as it is
StartSimulation_stays_enabled ==
    /\ window.page = "main"
    /\ window.run_button
    /\ history.started < MaxWorkers
    /\ \E built \in {build_config(window)} :
          IF built.err.type = "ValueError"
          THEN /\ window' = [window EXCEPT !.dialog = "Invalid configuration"]
               /\ UNCHANGED <<thread_pool, history>>
          ELSE /\ window' = [window EXCEPT !.status_label = "Running simulation..."]
               /\ thread_pool' = thread_pool \cup
                      {[id |-> history.started + 1, config |-> built.config,
                        signal |-> "none", payload |-> <<>>]}
               /\ history' = [history EXCEPT !.started = @ + 1]
    /\ UNCHANGED sim_vars

\* SimulationWindow._start_simulation, by a click on the Run button, which
\* only an enabled button emits
StartSimulation ==
    /\ window.page = "main"
    /\ window.run_button
    /\ history.started < MaxWorkers
    /\ \E built \in {build_config(window)} :
          IF built.err.type = "ValueError"
          THEN /\ window' = [window EXCEPT !.dialog = "Invalid configuration"]
               /\ UNCHANGED <<thread_pool, history>>
          ELSE /\ window' = [window EXCEPT !.status_label = "Running simulation...",
                                           !.run_button = FALSE]
               /\ thread_pool' = thread_pool \cup
                      {[id |-> history.started + 1, config |-> built.config,
                        signal |-> "none", payload |-> <<>>]}
               /\ history' = [history EXCEPT !.started = @ + 1]
    /\ UNCHANGED sim_vars

\* SimulationWorker.run on a pool thread: the call of runner.run returns a
\* result, emitted with finished, or raises, and error is emitted
WorkerRun ==
    /\ \E w \in thread_pool, outcome \in WorkerOutcomes :
          /\ w.signal = "none"
          /\ thread_pool' = (thread_pool \ {w}) \cup
                {IF outcome = "returned"
                 THEN [w EXCEPT !.signal = "finished",
                                !.payload = <<[run |-> w.id,
                                               backend |-> w.config.backend]>>]
                 ELSE [w EXCEPT !.signal = "error"]}
    /\ UNCHANGED <<sim_vars, window, history>>

\* SimulationWindow._simulation_finished, on the finished signal of a worker
SimulationFinished ==
    /\ \E w \in thread_pool :
          /\ w.signal = "finished"
          /\ window' = [window EXCEPT !.status_label = "Simulation finished",
                                      !.run_button = TRUE,
                                      !.last_result = w.payload,
                                      !.export_action = TRUE]
          /\ thread_pool' = thread_pool \ {w}
          /\ history' = [history EXCEPT !.finished = Append(@, w.payload[1])]
    /\ UNCHANGED sim_vars

\* _simulation_failed that also forgets the last result
SimulationFailed_clears_result ==
    /\ \E w \in thread_pool :
          /\ w.signal = "error"
          /\ window' = [window EXCEPT !.dialog = "Simulation failed",
                                      !.status_label = "Error",
                                      !.run_button = TRUE,
                                      !.last_result = <<>>]
          /\ thread_pool' = thread_pool \ {w}
    /\ UNCHANGED <<sim_vars, history>>

\* SimulationWindow._simulation_failed, on the error signal of a worker
SimulationFailed ==
    /\ \E w \in thread_pool :
          /\ w.signal = "error"
          /\ window' = [window EXCEPT !.dialog = "Simulation failed",
                                      !.status_label = "Error",
                                      !.run_button = TRUE]
          /\ thread_pool' = thread_pool \ {w}
    /\ UNCHANGED <<sim_vars, history>>

\* SimulationWindow._export_result, by the Export action of the File menu,
\* which only an enabled action triggers
ExportResult ==
    /\ window.export_action
    /\ \E path \in PathCands :
          window' = IF window.last_result = <<>>
                    THEN [window EXCEPT !.dialog = "No result"]
                    ELSE IF path = "" THEN window
                    ELSE [window EXCEPT !.status_label = "Exported result to " \o path]
    /\ UNCHANGED <<sim_vars, thread_pool, history>>

WindowNext ==
    \/ ShowMainView
    \/ Reset
    \/ ClearTable
    \/ \E name \in {"fortran", "python", "gpu"} : SelectBackend(name)
    \/ StartSimulation
    \/ WorkerRun
    \/ SimulationFinished
    \/ SimulationFailed
    \/ ExportResult

\* the window, from its construction, under the user's events
WindowSpec == Init /\ [][WindowNext]_vars

---------------------------------------------------------------------------
(* Properties.                                                             *)

\* the last operation was a backend run that returned a result
RunReturned == ret.op = "run" /\ ret.result # <<>>

\* C1: for every valid configuration, the result a backend's run returns has
\* a state tensor of shape (num_steps, num_particles, 6) and num_steps times.
C1_ShapeInvariant ==
    RunReturned =>
        LET result == ret.result[1]
            n == cfg[1].particles.positions.shape[1]
        IN  /\ Len(result.state) = cfg[1].num_steps
            /\ Len(result.times) = cfg[1].num_steps
            /\ \A k \in 1..Len(result.state) :
                  /\ Len(result.state[k]) = n
                  /\ \A p \in 1..n : Len(result.state[k][p]) = 6

C1_Witness ==
    /\ RunReturned
    /\ cfg[1].num_steps = 3
    /\ cfg[1].particles.positions.shape[1] = 2
    /\ Len(ret.result[1].state) = 3

\* the initial position followed by the initial velocity of particle p
InitialRow(particles, p) ==
    <<particles.positions.data[3 * p - 2], particles.positions.data[3 * p - 1],
      particles.positions.data[3 * p],
      particles.velocities.data[3 * p - 2], particles.velocities.data[3 * p - 1],
      particles.velocities.data[3 * p]>>

\* C2: row 0 of every backend's result is the ensemble's initial state, for
\* each particle its initial position followed by its initial velocity.
C2_InitialConditionFidelity ==
    RunReturned =>
        \A p \in 1..cfg[1].particles.positions.shape[1] :
            ret.result[1].state[1][p] = InitialRow(cfg[1].particles, p)

C2_Witness ==
    /\ RunReturned
    /\ ret.result[1].backend = "fortran"
    /\ cfg[1].particles.positions.shape[1] = 2
    /\ ret.result[1].state[1][1] = <<SCALE, 0, 0, 0, SCALE, 0>>

\* the classical RK4 update of the rows s with step dt and derivative f
ClassicalRK4(s, dt, config) ==
    LET half == Mul(SCALE \div 2, dt)
        sixth == Div(dt, 6 * SCALE)
        Shift(h, k) == ndarray([p \in DOMAIN s |->
                          [c \in 1..6 |-> s[p][c] + Mul(h, k[p][c])]])
        f(data) == python_deriv(config, data)
        k1 == f(s)
        k2 == f(Shift(half, k1))
        k3 == f(Shift(half, k2))
        k4 == f(Shift(dt, k3))
    IN  ndarray([p \in DOMAIN s |->
            [c \in 1..6 |->
                s[p][c] + Mul(sixth, k1[p][c] + 2 * k2[p][c] + 2 * k3[p][c]
                                     + k4[p][c])]])

\* rows 1..n of tensor t each follow from their predecessor by one RK4 step
RowsFollowRK4(t, n) ==
    \A k \in 2..n : t[k] = ClassicalRK4(t[k - 1], cfg[1].time_step, cfg[1])

\* C3: in the vectorized backend every row i >= 1 of the state tensor is the
\* classical RK4 update of row i-1 with the shared step dt, both while the
\* loop runs and in the result returned.
C3_RowsAreRK4Steps ==
    /\ (pc = "loop" /\ backend = "python") => RowsFollowRK4(state, i)
    /\ (RunReturned /\ ret.result[1].backend = "python") =>
          RowsFollowRK4(ret.result[1].state, cfg[1].num_steps)

C3_Witness ==
    /\ RunReturned
    /\ ret.result[1].backend = "python"
    /\ cfg[1].num_steps = 3
    /\ cfg[1].particles.positions.shape[1] = 2
    /\ ret.result[1].state[3] # ret.result[1].state[2]
    /\ ret.result[1].state[2] # ret.result[1].state[1]

\* the last operation was a ParticleEnsemble construction
EnsembleCall == ret.op \in {"ParticleEnsemble", "from_sequences"}

\* the arguments hold positions and velocities of different lengths
LengthsDiffer == args[1].shape[1] # args[2].shape[1]

\* the arguments hold a mass that is not strictly positive
SomeMassNonPositive == \E k \in 1..Len(args[4].data) : args[4].data[k] <= 0

\* C4: constructing a ParticleEnsemble whose positions and velocities differ
\* in length, or with a mass <= 0, raises and yields no ensemble object; the
\* length mismatch of two arrays is reported as a ValueError.
C4_EnsembleRejected ==
    (EnsembleCall /\ (LengthsDiffer \/ SomeMassNonPositive)) =>
        /\ ret.err.type # "None"
        /\ ens = <<>>
        /\ (LengthsDiffer /\ \A k \in 1..5 : args[k].nd) => ret.err.type = "ValueError"

C4_Witness ==
    /\ EnsembleCall
    /\ ~LengthsDiffer
    /\ SomeMassNonPositive
    /\ ret.err.msg = "Mass values must be strictly positive"
    /\ ens = <<>>

\* the arguments of a SimulationConfig construction that C5 names as invalid
BadConfigArgs(a) ==
    \/ a[1] <= 1
    \/ a[2] <= 0
    \/ Len(a[4].data) # 3
    \/ Len(a[5].data) # 3
    \/ a[6] \notin {"fortran", "python", "gpu"}

\* C5: a SimulationConfig construction with num_steps <= 1, time_step <= 0,
\* a field without exactly 3 components or an unknown backend name raises
\* ValueError and yields no configuration, in a step that invokes no backend
\* factory and performs no integration step.
C5_ConfigRejectedBeforeBackends ==
    [][(ret'.op = "SimulationConfig" /\ BadConfigArgs(args')) =>
          /\ ret'.err.type = "ValueError"
          /\ cfg' = <<>>
          /\ pc' = "idle"
          /\ UNCHANGED <<calls, artifact, backend, state, i>>]_vars

C5_Witness ==
    /\ ret.op = "SimulationConfig"
    /\ args[1] = 1
    /\ args[2] > 0
    /\ Len(args[4].data) = 3
    /\ args[6] = "python"
    /\ ret.err.msg = "num_steps must be > 1"
    /\ cfg = <<>>

\* an ensemble of n particles in the shape the data model requires
WellShaped(e) ==
    LET n == e.positions.shape[1]
    IN  /\ e.positions.shape = <<n, 3>>
        /\ e.velocities.shape = <<n, 3>>
        /\ e.charges.shape = <<n>>
        /\ e.masses.shape = <<n>>
        /\ e.betas.shape = <<n>>

\* C6: every constructed ParticleEnsemble has positions and velocities of
\* shape (n, 3) and charges, masses and betas of exactly n scalars, and no
\* run fails later on the shape of its ensemble.
C6_EnsembleWellShaped ==
    /\ ens # <<>> => WellShaped(ens[1])
    /\ ret.op = "run" => ret.err.msg # "shape mismatch"

\* the backend the configuration requests is registered but cannot be
\* constructed: no GPU runtime, or the native module cannot be built or loaded
RequestedUnavailable ==
    /\ cfg # <<>>
    /\ cfg[1].backend \in DOMAIN registry
    /\ \/ registry[cfg[1].backend] = "GPUBackend" /\ ~cupy
       \/ /\ registry[cfg[1].backend] = "FortranBackend"
          /\ load_module(artifact, toolchain, source_file).err # NoError

\* C7: when the requested backend is unavailable, SimulationRunner.run raises
\* the one uniform RuntimeError of the runner, with the constructor's
\* exception as its cause.
C7_UniformUnavailableError ==
    (ret.op = "run" /\ RequestedUnavailable) =>
        /\ ret.err.type = "RuntimeError"
        /\ ret.err.cause \in {"GPUNotAvailableError", "FortranBuildError", "ImportError"}

\* C8: a lookup reports 'Unknown backend' if and only if the name is not a
\* key of the registry.
C8_UnknownBackendIffNotRegistered ==
    (ret.op \in {"run", "resolve"} /\ cfg # <<>>) =>
        (ret.err.msg = "Unknown backend" <=> cfg[1].backend \notin DOMAIN registry)

\* C9: backend.run is entered only for an available backend (GPU runtime
\* present, native module loaded), and a GPU request without the runtime
\* fails with GPUNotAvailableError raised by the constructor.
C9_UnavailabilityAtConstruction ==
    /\ (pc # "idle" /\ backend = "gpu") => cupy
    /\ (pc # "idle" /\ backend = "fortran") => artifact = "present"
    /\ (ret.op = "run" /\ cfg # <<>> /\ cfg[1].backend = "gpu"
        /\ "gpu" \in DOMAIN registry /\ registry["gpu"] = "GPUBackend"
        /\ ~cupy) =>
           ret.err.cause = "GPUNotAvailableError"

C9_Witness ==
    /\ ret.op = "run"
    /\ cfg # <<>>
    /\ cfg[1].backend = "gpu"
    /\ ~cupy
    /\ ret.err.cause = "GPUNotAvailableError"
    /\ pc = "idle"

\* C10: a GPU request on a system without the GPU runtime fails and leaves
\* the registry, the build directory, the environment, the ensemble, the
\* configuration and all run state as they were.
C10_FailedGpuRequestChangesNothing ==
    [][(/\ calls' = calls + 1
        /\ cfg[1].backend = "gpu"
        /\ "gpu" \in DOMAIN registry
        /\ registry["gpu"] = "GPUBackend"
        /\ ~cupy) =>
          /\ ret' = Returned("run", Err("RuntimeError",
                                        "GPU backend requested but unavailable",
                                        "GPUNotAvailableError"), <<>>)
          /\ pc' = "idle"
          /\ UNCHANGED <<registry, artifact, toolchain, source_file, cupy, ens,
                         cfg, backend, state, i, f2py_ran, f2py_argv, cwd,
                   done>>]_vars

\* a python run returned its result after a GPU request failed
C10_Witness ==
    /\ RunReturned
    /\ ret.result[1].backend = "python"
    /\ ~cupy
    /\ calls = 2
    /\ artifact = "absent"
    /\ toolchain = "ok"

\* the text t occurs in the text s
Contains(s, t) ==
    \E k \in 1..(Len(s) - Len(t) + 1) : SubSeq(s, k, k + Len(t) - 1) = t

\* C11: when the native routine hands back a non-zero status,
\* FortranBackend.run raises a RuntimeError whose message carries that status
\* and no result is returned or recorded; a result is returned exactly when
\* the status is 0.
C11_NonZeroStatusIsFatal ==
    [][(pc = "native" /\ RankOne(cfg[1])) =>
          IF args'[1] # 0
          THEN /\ ret'.op = "run"
               /\ ret'.err.type = "RuntimeError"
               /\ Contains(ret'.err.msg, "status " \o ToString(args'[1]))
               /\ ret'.result = <<>>
               /\ done' = done
               /\ pc' = "idle"
          ELSE /\ ret'.err = NoError
               /\ ret'.result # <<>>]_vars

C11_Witness ==
    /\ ret.op = "run"
    /\ ret.err.type = "RuntimeError"
    /\ args = <<2>>
    /\ ret.err.msg = "Fortran integrator returned non-zero status 2"
    /\ ret.result = <<>>
    /\ done["fortran"] = <<>>

\* a step that loads the native module without force: load_module(),
\* build_module(force=False), or the construction of a FortranBackend
NonForcedLoad ==
    \/ ret'.op = "load_module"
    \/ ret'.op = "build_module" /\ args' = <<FALSE>>
    \/ /\ calls' = calls + 1
       /\ cfg[1].backend \in DOMAIN registry
       /\ registry[cfg[1].backend] = "FortranBackend"

\* a step that is a call of build_module(force=True)
ForcedBuild ==
    ret'.op = "build_module" /\ args' = <<TRUE>>

\* a non-forced load invokes the compiler only when no artifact exists, and
\* with an artifact it imports that artifact and leaves the build directory
\* as it is
LazyAndCached ==
    /\ (NonForcedLoad /\ f2py_ran') => artifact = "absent"
    /\ (NonForcedLoad /\ artifact # "absent") =>
          /\ ~f2py_ran'
          /\ artifact' = artifact

\* C12 as stated: the native module is built lazily and cached, and
\* build_module(force=True) always invokes the compiler.
C12_ForceAlwaysCompiles ==
    [][/\ LazyAndCached
       /\ ForcedBuild => f2py_ran']_vars

\* C12 as amended: the native module is built lazily and cached, and
\* build_module(force=True) invokes the compiler whenever the Fortran source
\* file exists; without it, it raises FortranBuildError before compiling.
C12_LazyBuildCached ==
    [][/\ LazyAndCached
       /\ (ForcedBuild /\ source_file) => f2py_ran'
       /\ (ForcedBuild /\ ~source_file) =>
             /\ ~f2py_ran'
             /\ ret'.err.msg = "Missing source file"]_vars

\* two FortranBackend constructions after the module was compiled, the
\* second of which imported it without running f2py
C12_Witness ==
    /\ calls = 2
    /\ toolchain = "ok"
    /\ ~f2py_ran
    /\ artifact = "present"
    /\ Len(done["fortran"]) = 2
    /\ ret.op = "run"

\* constructing the native backend (or loading the module) failed in the
\* last operation, on a system without a compiler
NativeFailedWithoutCompiler ==
    /\ ret.op \in {"run", "load_module"}
    /\ ret.err.type = "FortranBuildError"
    /\ toolchain = "missing"
    /\ source_file

\* C13: the message surfaced when the native backend cannot be constructed
\* for lack of a compiler differs from the message surfaced when the
\* compiler is present and the compilation fails.
C13_ToolchainMessagesDiffer ==
    NativeFailedWithoutCompiler =>
        ret.err.msg # fortran_init(artifact, "broken", source_file).err.msg

\* a step that is a call of build_module in which f2py ran and exited with
\* a non-zero code
FailedCompile ==
    /\ ret'.op = "build_module"
    /\ f2py_ran'
    /\ f2py_main(toolchain).code # 0

\* C14: whenever f2py exits with a non-zero code, build_module raises
\* FortranBuildError with a message that contains 'F2PY failed' and whatever
\* the build step printed to stdout and to stderr.
C14_BuildErrorCarriesDiagnostics ==
    [][FailedCompile =>
          /\ ret'.err.type = "FortranBuildError"
          /\ Contains(ret'.err.msg, "F2PY failed")
          /\ f2py_main(toolchain).stdout # "" =>
                Contains(ret'.err.msg, f2py_main(toolchain).stdout)
          /\ f2py_main(toolchain).stderr # "" =>
                Contains(ret'.err.msg, f2py_main(toolchain).stderr)]_vars

C14_Witness ==
    /\ ret.op = "build_module"
    /\ toolchain = "broken"
    /\ f2py_ran
    /\ ret.err.msg = "F2PY failed to compile the Fortran backend:\n"
                     \o "compiling dust_integrator.f90\nError: syntax error"

Close(a, b) ==
    \/ a = b
    \/ Abs(a - b) * 1000000 < (IF Abs(a) > Abs(b) THEN Abs(a) ELSE Abs(b))

\* two configurations identical but for the backend name
SameButBackend(c1, c2) == [c1 EXCEPT !.backend = c2.backend] = c2

\* the results r1 and r2 match at every step, particle and component
Matching(r1, r2) ==
    /\ r1.times = r2.times
    /\ Len(r1.state) = Len(r2.state)
    /\ \A k \in DOMAIN r1.state :
          /\ Len(r1.state[k]) = Len(r2.state[k])
          /\ \A p \in DOMAIN r1.state[k] : \A c \in 1..6 :
                Close(r1.state[k][p][c], r2.state[k][p][c])

C17_GpuMirrorsPython ==
    \A j \in DOMAIN done["python"], k \in DOMAIN done["gpu"] :
        SameButBackend(done["python"][j].config, done["gpu"][k].config) =>
            /\ done["gpu"][k].result.times = done["python"][j].result.times
            /\ done["gpu"][k].result.state = done["python"][j].result.state

C17_Witness ==
    /\ Len(done["python"]) = 1
    /\ Len(done["gpu"]) = 1
    /\ SameButBackend(done["python"][1].config, done["gpu"][1].config)
    /\ done["gpu"][1].config.num_steps = 3
    /\ done["gpu"][1].config.particles.positions.shape[1] = 2
    /\ done["gpu"][1].result.state[3] # done["gpu"][1].result.state[2]
    /\ done["gpu"][1].result.state = done["python"][1].result.state

\* the names of the backends
BackendNames == {"python", "gpu", "fortran"}

\* C19 as stated: SimulationRunner.run returns the result of the resolved
\* backend's run unmodified, and the result's backend tag is the name
\* requested in config.backend.
C19_TagIsRequestedName ==
    \A b \in BackendNames : \A k \in DOMAIN done[b] :
        /\ done[b][k].returned = done[b][k].result
        /\ done[b][k].returned.backend = done[b][k].config.backend

\* C19 as amended: SimulationRunner.run returns the result of the resolved
\* backend's run unmodified, and the result's backend tag is the name
\* requested in config.backend whenever the registry maps that name to the
\* backend DEFAULT_BACKENDS maps it to.
C19_RunnerForwardsResult ==
    \A b \in BackendNames : \A k \in DOMAIN done[b] :
        /\ done[b][k].returned = done[b][k].result
        /\ registry[done[b][k].config.backend]
              = DEFAULT_BACKENDS[done[b][k].config.backend] =>
                 done[b][k].returned.backend = done[b][k].config.backend

C19_Witness ==
    /\ RunReturned
    /\ Len(done["fortran"]) = 1
    /\ done["fortran"][1].config.backend = "fortran"
    /\ ret.result[1] = done["fortran"][1].result
    /\ ret.result[1].backend = "fortran"
    /\ Len(ret.result[1].state) = 3

\* a step of SimulationRunner.run: its call, a step of the backend's run, or
\* its return
RunStep == calls' = calls + 1 \/ pc # "idle"

\* C20: no step of a run, whether the run returns or raises, changes the
\* configuration or its ensemble: positions, velocities, charges, masses,
\* betas, the field vectors, num_steps, time_step, gm_sun and backend keep
\* their values.
C20_RunLeavesConfigUnchanged ==
    [][RunStep => /\ cfg' = cfg
                  /\ ens' = ens
                  /\ cfg'[1].particles = ens'[1]]_vars

\* a run returned, another raised, and the configuration is the one the
\* first run was given but for the backend name
C20_Witness ==
    /\ ret.op = "run"
    /\ ret.err.type = "RuntimeError"
    /\ calls = 2
    /\ Len(done["python"]) = 1
    /\ SameButBackend(done["python"][1].config, cfg[1])
    /\ cfg[1].particles = ens[1]
    /\ cfg[1].num_steps = 3

\* C21: for every valid configuration, time_span is time_step * (num_steps -
\* 1) and times has num_steps samples that start at 0, end at time_span and
\* are time_step apart; the times of a returned result are these samples,
\* one per state row.
C21_TimesEvenlySpaced ==
    /\ cfg # <<>> =>
          LET c == cfg[1]
              t == times(c)
          IN  /\ time_span(c) = c.time_step * (c.num_steps - 1)
              /\ Len(t) = c.num_steps
              /\ t[1] = 0
              /\ t[c.num_steps] = time_span(c)
              /\ \A k \in 2..c.num_steps : t[k] - t[k - 1] = c.time_step
    /\ RunReturned =>
          /\ Len(ret.result[1].times) = Len(ret.result[1].state)
          /\ \A k \in DOMAIN ret.result[1].state :
                ret.result[1].times[k] = (k - 1) * cfg[1].time_step

C21_Witness ==
    /\ RunReturned
    /\ cfg[1].num_steps = 3
    /\ cfg[1].time_step > 0
    /\ ret.result[1].times = <<0, cfg[1].time_step, 2 * cfg[1].time_step>>

\* the tensor whose (step, particle) entries are those of a followed by
\* those of b: np.concatenate((a, b), axis=-1)
concatenate(a, b) ==
    [k \in DOMAIN a |-> [p \in DOMAIN a[k] |-> a[k][p] \o b[k][p]]]

\* C22: the derived views of a returned result are determined by its state
\* tensor: positions() is columns 0-2 and velocities() columns 3-5 of every
\* (step, particle) entry, num_steps and num_particles are the first two
\* dimensions, and positions() followed by velocities() is the state.
C22_ViewsReconstructState ==
    RunReturned =>
        LET result == ret.result[1]
        IN  /\ result_num_steps(result) = Len(result.state)
            /\ \A k \in DOMAIN result.state :
                  /\ num_particles(result) = Len(result.state[k])
                  /\ \A p \in DOMAIN result.state[k] :
                        /\ positions(result)[k][p] =
                              <<result.state[k][p][1], result.state[k][p][2],
                                result.state[k][p][3]>>
                        /\ velocities(result)[k][p] =
                              <<result.state[k][p][4], result.state[k][p][5],
                                result.state[k][p][6]>>
            /\ concatenate(positions(result), velocities(result)) = result.state

C22_Witness ==
    /\ RunReturned
    /\ num_particles(ret.result[1]) = 2
    /\ result_num_steps(ret.result[1]) = 3
    /\ positions(ret.result[1])[3][1] # velocities(ret.result[1])[3][1]
    /\ positions(ret.result[1])[3] # positions(ret.result[1])[1]

\* the number of positions of the list a that hold the text t
RECURSIVE Count(_, _)
Count(a, t) ==
    IF a = <<>> THEN 0
    ELSE (IF a[1] = t THEN 1 ELSE 0) + Count(SubSeq(a, 2, Len(a)), t)

\* C24: every time build_module invokes f2py_main, the argument list holds
\* '--backend' exactly once, immediately followed by 'distutils'.
C24_DistutilsBackendRequested ==
    f2py_ran =>
        /\ Count(f2py_argv, "--backend") = 1
        /\ \A k \in DOMAIN f2py_argv :
              f2py_argv[k] = "--backend" =>
                  /\ k < Len(f2py_argv)
                  /\ f2py_argv[k + 1] = "distutils"

C24_Witness ==
    /\ ret.op = "build_module"
    /\ args = <<TRUE>>
    /\ f2py_ran
    /\ f2py_argv[6] = "--backend"
    /\ f2py_argv[7] = "distutils"
    /\ ret.err.type = "FortranBuildError"

\* a step in which build_module ran: a direct call, load_module, or the
\* construction of a FortranBackend
BuildStep ==
    \/ ret'.op \in {"build_module", "load_module"}
    \/ /\ calls' = calls + 1
       /\ cfg[1].backend \in DOMAIN registry
       /\ registry[cfg[1].backend] = "FortranBackend"

\* C27: build_module leaves the process in the working directory it was
\* entered in, on every exit path: successful build, compile failure,
\* compile step exiting with code 0, and 'compiled but module not found'.
C27_BuildRestoresCwd ==
    [][BuildStep => cwd' = cwd]_vars

\* build_module ran f2py_main, which exited with code 0 and left no
\* module, in a process started in /home
C27_Witness ==
    /\ ret.op = "build_module"
    /\ f2py_ran
    /\ ret.err.msg = "Compilation succeeded but module not found."
    /\ cwd = "/home"

\* the derivative callable of the run in progress
DerivInProgress ==
    IF backend = "gpu" THEN gpu_closure(cfg[1]) ELSE python_closure(cfg[1])

\* the Lorentz acceleration q/m * (E + v x B) of a particle with the 6-tuple
\* row, component c
LorentzTerm(config, p, row, c) ==
    Mul(Div(config.particles.charges.data[p], config.particles.masses.data[p]),
        config.electric_field.data[c]
        + cross(SubSeq(row, 4, 6), config.magnetic_field.data, c))

\* -GM * (1 - beta) / r^3 * position of a particle at distance r > 0,
\* component c
GravityTerm(config, p, row, r, c) ==
    Mul(row[c],
        RoundDiv(Mul(-config.gm_sun, SCALE - config.particles.betas.data[p])
                 * SCALE * SCALE * SCALE, r * r * r))

\* C25: in every derivative evaluated on a row of the run in progress, a
\* particle at a degenerate distance from the origin (r = 0 at the model's
\* resolution) gets the Lorentz term alone as its acceleration, and a
\* particle at r > 0 gets the Lorentz term plus -GM*(1-beta)/r^3 * position.
C25_DegenerateRadiusNoGravity ==
    (pc = "loop" /\ RankOne(cfg[1])) =>
        \A k \in 1..i :
            LET d == call(DerivInProgress, state[k])
            IN  \A p \in DOMAIN state[k] :
                    LET row == state[k][p]
                        r == norm(row[1], row[2], row[3])
                    IN  \A c \in 1..3 :
                            d[p][3 + c] =
                                IF r = 0
                                THEN LorentzTerm(cfg[1], p, row, c)
                                ELSE LorentzTerm(cfg[1], p, row, c)
                                     + GravityTerm(cfg[1], p, row, r, c)

\* a run in which the second particle was at the origin in row 0, where the
\* fields accelerate it, and away from it in row 1, beside a first particle
\* that gravity accelerates
C25_Witness ==
    /\ pc = "loop"
    /\ RankOne(cfg[1])
    /\ i >= 2
    /\ Len(state[1]) = 2
    /\ norm(state[1][2][1], state[1][2][2], state[1][2][3]) = 0
    /\ call(DerivInProgress, state[1])[2][6] # 0
    /\ norm(state[2][2][1], state[2][2][2], state[2][2][3]) > 0
    /\ GravityTerm(cfg[1], 1, state[1][1],
                   norm(state[1][1][1], state[1][1][2], state[1][1][3]), 1) < 0

\* the exception backend.run raises in a step that ends it with an error:
\* the broadcasting error of a rank-2 charges, masses or betas array, or the
\* status error of the native backend
RaisedByBackend ==
    IF ~RankOne(cfg[1]) THEN Err("ValueError", "shape mismatch", "None")
    ELSE Err("RuntimeError",
             "Fortran integrator returned non-zero status " \o ToString(args'[1]),
             "None")

\* C26: one call of SimulationRunner.run resolves the backend once and
\* enters backend.run at most once, after a successful resolution and never
\* again; the call ends either with a result of num_steps rows or with an
\* error and no result, and an error raised by backend.run reaches the
\* caller as raised.
C26_SingleAttemptNoSwallow ==
    [][/\ (pc = "idle" /\ pc' # "idle") =>
             /\ calls' = calls + 1
             /\ ret'.op = "resolve"
             /\ ret'.err = NoError
       /\ pc # "idle" =>
             /\ calls' = calls
             /\ registry' = registry
             /\ pc' \in {pc, "idle"}
             /\ pc' = pc => (backend' = backend /\ i' = i + 1)
       /\ (pc # "idle" /\ pc' = "idle") =>
             /\ ret'.op = "run"
             /\ \/ /\ ret'.err = NoError
                   /\ Len(ret'.result) = 1
                   /\ Len(ret'.result[1].state) = cfg[1].num_steps
                   /\ Len(ret'.result[1].times) = cfg[1].num_steps
                \/ /\ ret'.err = RaisedByBackend
                   /\ ret'.result = <<>>
                   /\ done' = done
       /\ (pc = "idle" /\ calls' = calls + 1 /\ pc' = "idle") =>
             /\ ret'.op = "run"
             /\ ret'.err # NoError
             /\ ret'.result = <<>>]_vars

\* a call in which backend.run raised on a rank-2 charges array, after the
\* only resolution of that call
C26_Witness ==
    /\ calls = 1
    /\ ret.op = "run"
    /\ ret.err = Err("ValueError", "shape mismatch", "None")
    /\ ret.result = <<>>
    /\ pc = "idle"
    /\ cfg # <<>>
    /\ ~RankOne(cfg[1])

\* the configuration that agrees with config on particle j and on the
\* global scalars and has no other particle
Solo(config, j) ==
    [config EXCEPT !.particles =
        [positions |-> Arr(<<1, 3>>, SubSeq(@.positions.data, 3 * j - 2, 3 * j)),
         velocities |-> Arr(<<1, 3>>, SubSeq(@.velocities.data, 3 * j - 2, 3 * j)),
         charges |-> Arr(<<1>>, <<@.charges.data[j]>>),
         masses |-> Arr(<<1>>, <<@.masses.data[j]>>),
         betas |-> Arr(<<1>>, <<@.betas.data[j]>>)]]

\* the rows PythonBackend.run computes for config, from the rows so far
RECURSIVE PythonRows(_, _)
PythonRows(config, rows) ==
    IF Len(rows) = config.num_steps THEN rows
    ELSE CHOOSE all \in {PythonRows(config, next) :
            next \in {Append(rows, rk4_step(rows[Len(rows)], config.time_step,
                                            python_closure(config)))}} : TRUE

\* C28: every run the vectorized backend completes gives each particle j
\* the trajectory the backend computes for the configuration that holds
\* particle j alone with the same fields, GM, dt and num_steps; so
\* configurations that agree on particle j and on the globals give
\* particle j the same trajectory, whatever the other particles are.
C28_ParticlesDoNotInteract ==
    [][Len(done'["python"]) > Len(done["python"]) =>
         \A run \in {done'["python"][Len(done'["python"])]} :
             \A j \in 1..count(run.config.particles) :
                 \A solo \in {Solo(run.config, j)} :
                     \A alone \in {PythonRows(solo,
                                       <<as_initial_state(solo.particles)>>)} :
                         \A k \in 1..run.config.num_steps :
                             run.returned.state[k][j] = alone[k][1]]_vars

\* a completed python run of two particles, both of which moved
C28_Witness ==
    /\ done["python"] # <<>>
    /\ count(done["python"][1].config.particles) = 2
    /\ done["python"][1].config.num_steps = 3
    /\ done["python"][1].returned.state[3][1] # done["python"][1].returned.state[1][1]
    /\ done["python"][1].returned.state[3][2] # done["python"][1].returned.state[1][2]
    /\ done["python"][1].returned.state[3][1] # done["python"][1].returned.state[3][2]

\* the conditions validated when the ensemble and the configuration were
\* constructed
ConstructionInvariants(config) ==
    /\ config.num_steps > 1
    /\ config.time_step > 0
    /\ config.electric_field.shape = <<3>>
    /\ config.magnetic_field.shape = <<3>>
    /\ config.backend \in {"fortran", "python", "gpu"}
    /\ \A p \in DOMAIN config.particles.masses.data :
          config.particles.masses.data[p] > 0
    /\ config.particles.velocities.shape = config.particles.positions.shape
    /\ config.particles.charges.shape[1] = count(config.particles)
    /\ config.particles.masses.shape[1] = count(config.particles)
    /\ config.particles.betas.shape[1] = count(config.particles)

\* C23: a SimulationConfig and its ParticleEnsemble keep the values
\* validated at construction, so in every state in which a backend reads
\* them (its run is in progress) the construction invariants hold, and the
\* configuration is the one the ensemble was validated into.
C23_ValidatedForLife ==
    pc \in {"loop", "native"} =>
        /\ ConstructionInvariants(cfg[1])
        /\ cfg[1].particles = ens[1]

\* a step of _start_simulation that started a worker
WorkerStarted == history'.started = history.started + 1

\* a step of _start_simulation whose configuration was rejected
ConfigRejected ==
    /\ window'.dialog = "Invalid configuration"
    /\ window.dialog # "Invalid configuration"

\* a step in which the window handled the signal of a worker
SignalHandled == thread_pool' # thread_pool /\ thread_pool' \subseteq thread_pool

\* C29: the Run button is enabled exactly when no worker started by the
\* window is in flight, and at most one worker is; starting a run with a
\* valid configuration disables the button, a configuration rejected with
\* ValueError starts no worker and leaves it enabled, and handling a
\* worker's finished or error signal enables it again.
C29_RunButtonGuardsWorker ==
    /\ [](/\ window.run_button <=> thread_pool = {}
          /\ Cardinality(thread_pool) <= 1)
    /\ [][/\ WorkerStarted =>
               /\ window.run_button
               /\ ~window'.run_button
               /\ Cardinality(thread_pool') = Cardinality(thread_pool) + 1
          /\ ConfigRejected =>
               /\ thread_pool' = thread_pool
               /\ history' = history
               /\ window'.run_button
          /\ SignalHandled => window'.run_button]_vars

\* the third worker of the window is in flight after one run that finished
\* and one that failed, and a configuration was rejected in between
C29_Witness ==
    /\ history.started = 3
    /\ Len(history.finished) = 1
    /\ Cardinality(thread_pool) = 1
    /\ ~window.run_button
    /\ window.dialog = "Invalid configuration"

\* C30: in every state of the window the Export action is enabled if and
\* only if a last result is stored, the stored result is the result of the
\* most recent run the window saw finish, and a failed or rejected run
\* neither clears the stored result nor disables the action.
C30_ExportIffResultStored ==
    /\ [](/\ window.export_action <=> window.last_result # <<>>
          /\ window.last_result =
                IF history.finished = <<>> THEN <<>>
                ELSE <<history.finished[Len(history.finished)]>>)
    /\ [][(window'.dialog \in {"Invalid configuration", "Simulation failed"}
            /\ window'.dialog # window.dialog) =>
                /\ window'.last_result = window.last_result
                /\ window'.export_action = window.export_action]_vars

\* a result is stored and exportable after a later run failed and the
\* result was exported
C30_Witness ==
    /\ window.export_action
    /\ window.last_result = <<[run |-> 1, backend |-> "python"]>>
    /\ history.started = 2
    /\ thread_pool = {}
    /\ window.dialog = "Simulation failed"
    /\ window.status_label = "Exported result to trajectory_run.npz"

====
